---- MODULE Spec2Model ----
(***************************************************************************)
(* A model of the water-surface simulator of Fluid_sim.cpp (the file       *)
(* ConsoleApplication1.cpp holds the same code with shorter comments):     *)
(*   - the class watervolume: buildmesh, updatewaves, upload;              *)
(*   - the recording globals, key_callback, saveFrame and the render loop  *)
(*     of main.                                                            *)
(*                                                                         *)
(* Numbers.  The program computes in float.  The model computes in fixed   *)
(* point: lengths, heights and normal components are integers counting     *)
(* thousandths (Milli), and a division rounds down.  Simulation time is    *)
(* counted in loop steps of 0.05 (TicksPerUnit steps make one time unit),  *)
(* so the time arithmetic of the loop is exact up to the time 2^20, where  *)
(* a float no longer changes when 0.05f is added to it (FloatAccumulate).  *)
(* NaN stands for the float not-a-number that 0.0f / 0 yields.             *)
(***************************************************************************)
EXTENDS Integers, Sequences, FiniteSets, TLC

VARIABLES
    \* ---- watervolume (class fields) ----
    constructed,        \* has the constructor of watervolume run
    gridwidth, griddepth,
    width, depth, thickness,
    topstart, bottomstart,
    vertices,           \* std::vector<vertex>, indexed from 0
    indices,            \* std::vector<unsigned int> (a sequence of vertex indices)
    \* ---- GPU buffers written by main and by upload ----
    vbo,                \* contents of the vertex buffer object
    ebo,                \* contents of the element buffer object
    \* ---- recording globals ----
    g_recording, g_recordStartTime, g_recordedFrames, g_globalSimTime,
    \* ---- the window and the files written ----
    window_width, window_height,
    framebuffer,        \* the back buffer: window_height rows of window_width * 3
                        \* bytes, bottom row first (what glReadPixels returns)
    screen,             \* the front buffer, shown since the last glfwSwapBuffers
    lastWrite,          \* the last stbi_write_png call: file name and image
    encoder,            \* the process system(cmd) started: "none", "running",
                        \* "succeeded" or "failed"
    \* ---- main ----
    pc,                 \* where the caller is: "new", "built", "ready" (mesh harness);
                        \* "drawn" (saveFrame harness); "test", "poll", "system",
                        \* "done" (the render loop of main)
    windowShouldClose,  \* the flag glfwSetWindowShouldClose sets
    timeaccumulator,
    \* ---- what the program did to its collaborators ----
    pixelReads,         \* number of glReadPixels calls so far
    saved,              \* frame numbers handed to saveFrame since the last recording start
    encoderCalls        \* one entry per system(cmd) call: the frame rate computed and printed

meshvars == <<constructed, gridwidth, griddepth, width, depth, thickness,
              topstart, bottomstart, vertices, indices>>
gpuvars  == <<vbo, ebo>>
recvars  == <<g_recording, g_recordStartTime, g_recordedFrames>>
outvars  == <<pixelReads, saved, encoderCalls>>
loopvars == <<pc, windowShouldClose, timeaccumulator, g_globalSimTime>>
framevars == <<window_width, window_height, framebuffer, screen, lastWrite>>
vars     == <<meshvars, gpuvars, recvars, outvars, loopvars, framevars, encoder>>

(***************************************************************************)
(* Bounds of the model.                                                    *)
(***************************************************************************)
\* Largest grid width and depth the mesh specification constructs.
MaxGrid == 4
\* The render loop is followed for this many steps of 0.05.
MaxTime == 324
\* Grid width and depth of the water volume the render loop runs on
\* (main uses 200 x 200).
LoopGrid == 2
\* Width and height of the window the render loop draws into, in pixels
\* (main uses 800 x 600).
LoopWindowWidth == 1
LoopWindowHeight == 2
\* Once the simulation time has stopped advancing, a recording is followed
\* for this many frames.
MaxFrames == 322
\* Largest window width and height the saveFrame specification uses, and
\* the number of saveFrame calls it follows.
MaxCols == 2
MaxRows == 3
MaxReads == 2

(***************************************************************************)
(* Program constants.                                                      *)
(***************************************************************************)
\* 1 / 0.05: loop steps per unit of simulation time (timeaccumulator += 0.05f).
TicksPerUnit == 20
\* The 16.0f of the recording test and of the frame-rate division.
RECORD_DURATION == 16
\* Fixed-point unit: thousandths.
Milli == 10^3
\* The float NaN (0.0f / 0 in buildmesh when a grid dimension is 1).
NaN == 1000000000

RecordTicks == RECORD_DURATION * TicksPerUnit

\* The time, in loop steps, from which timeaccumulator += 0.05f leaves the
\* float unchanged: at 2^20 neighbouring floats are 0.125 apart, and the sum
\* rounds back to 2^20.
StallTicks == 2^20 * TicksPerUnit

\* timeaccumulator += 0.05f
FloatAccumulate(t) == IF t >= StallTicks THEN t ELSE t + 1

(***************************************************************************)
(* Float arithmetic in fixed point, NaN-propagating.                       *)
(***************************************************************************)
IsNaN(a) == a = NaN

FAdd(a, b) == IF IsNaN(a) \/ IsNaN(b) THEN NaN ELSE a + b
FSub(a, b) == IF IsNaN(a) \/ IsNaN(b) THEN NaN ELSE a - b
\* product of two Milli quantities
\* ((a * b) \div Milli, computed without forming a * b)
FMul(a, b) ==
    IF IsNaN(a) \/ IsNaN(b) THEN NaN
    ELSE a * (b \div Milli) + (a * (b % Milli)) \div Milli
\* static_cast<float>(n) / d for integers n and d, in Milli.  In buildmesh the
\* divisor is 0 only when the dividend is 0 too (one row or one column):
\* 0.0f / 0 is NaN.
FDivInt(n, d) == IF d = 0 THEN NaN ELSE (n * Milli) \div d

\* float equality: NaN equals nothing, itself included
FEq(a, b) == ~IsNaN(a) /\ ~IsNaN(b) /\ a = b

(***************************************************************************)
(* watervolume::buildmesh                                                  *)
(***************************************************************************)
\* struct vertex
Vertex(x, y, z, nx, ny, nz) ==
    [x |-> x, y |-> y, z |-> z, nx |-> nx, ny |-> ny, nz |-> nz]

\* px = fx * width - 0.5f * width with fx = float(x) / (gridwidth - 1)
GridCoord(i, n, extent) == FSub(FMul(FDivInt(i, n - 1), extent), extent \div 2)

\* The top vertex of grid cell idx = x + z * gridwidth.
TopVertex(idx, gw, gd, w, d) ==
    Vertex(GridCoord(idx % gw, gw, w), 0, GridCoord(idx \div gw, gd, d), 0, Milli, 0)

\* The bottom vertex of grid cell idx: x and z copied from the top vertex.
BottomVertex(idx, gw, gd, w, d, t) ==
    LET top == TopVertex(idx, gw, gd, w, d)
    IN  Vertex(top.x, -t, top.z, 0, -Milli, 0)

\* vertices.resize(gridwidth * griddepth * 2) and the two vertex loops.
BuildVertices(gw, gd, w, d, t) ==
    [i \in 0 .. (gw * gd * 2 - 1) |->
        IF i < gw * gd THEN TopVertex(i, gw, gd, w, d)
                       ELSE BottomVertex(i - gw * gd, gw, gd, w, d, t)]

\* The six indices the top loop pushes for cell (x, z).
TopCell(x, z, gw, start) ==
    LET i0 == start + (x + z * gw)
        i1 == start + ((x + 1) + z * gw)
        i2 == start + (x + (z + 1) * gw)
        i3 == start + ((x + 1) + (z + 1) * gw)
    IN  <<i0, i1, i2, i1, i3, i2>>

\* The six indices the bottom loop pushes for cell (x, z).
BottomCell(x, z, gw, start) ==
    LET i0 == start + (x + z * gw)
        i1 == start + ((x + 1) + z * gw)
        i2 == start + (x + (z + 1) * gw)
        i3 == start + ((x + 1) + (z + 1) * gw)
    IN  <<i0, i2, i1, i1, i2, i3>>

\* for (x = 0; x < gridwidth - 1; ++x) of the top loop, row z
RECURSIVE TopRow(_, _, _, _, _)
TopRow(x, z, gw, start, acc) ==
    IF x < gw - 1 THEN TopRow(x + 1, z, gw, start, acc \o TopCell(x, z, gw, start))
                  ELSE acc

\* for (z = 0; z < griddepth - 1; ++z) of the top loop
RECURSIVE TopLoop(_, _, _, _, _)
TopLoop(z, gw, gd, start, acc) ==
    IF z < gd - 1 THEN TopLoop(z + 1, gw, gd, start, TopRow(0, z, gw, start, acc))
                  ELSE acc

RECURSIVE BottomRow(_, _, _, _, _)
BottomRow(x, z, gw, start, acc) ==
    IF x < gw - 1 THEN BottomRow(x + 1, z, gw, start, acc \o BottomCell(x, z, gw, start))
                  ELSE acc

RECURSIVE BottomLoop(_, _, _, _, _)
BottomLoop(z, gw, gd, start, acc) ==
    IF z < gd - 1 THEN BottomLoop(z + 1, gw, gd, start, BottomRow(0, z, gw, start, acc))
                  ELSE acc

\* addsidequad pushing the first triangle only.
addsidequad_onetriangle(topa, topb, bottoma, bottomb) ==
    <<topa, topb, bottoma>>

\* The lambda addsidequad.
addsidequad(topa, topb, bottoma, bottomb) ==
    <<topa, topb, bottoma, topb, bottomb, bottoma>>

\* The six push_back calls of the right and the front loop.
reversedquad(topa, topb, bottoma, bottomb) ==
    <<topb, topa, bottomb, topa, bottoma, bottomb>>

\* The quad of one step of a side loop: along z in column x0 (left, right),
\* or along x in row z0 (front, back).
LeftQuad(z, gw, ts, bs) ==
    addsidequad(ts + (0 + z * gw), ts + (0 + (z + 1) * gw),
                bs + (0 + z * gw), bs + (0 + (z + 1) * gw))

\* The right quad built with addsidequad, as the left one is.
RightQuad_unreversed(z, gw, ts, bs) ==
    addsidequad(ts + ((gw - 1) + z * gw), ts + ((gw - 1) + (z + 1) * gw),
                bs + ((gw - 1) + z * gw), bs + ((gw - 1) + (z + 1) * gw))

RightQuad(z, gw, ts, bs) ==
    reversedquad(ts + ((gw - 1) + z * gw), ts + ((gw - 1) + (z + 1) * gw),
                 bs + ((gw - 1) + z * gw), bs + ((gw - 1) + (z + 1) * gw))

FrontQuad(x, gw, ts, bs) ==
    reversedquad(ts + (x + 0 * gw), ts + ((x + 1) + 0 * gw),
                 bs + (x + 0 * gw), bs + ((x + 1) + 0 * gw))

\* The back quad taken one row too far (row griddepth instead of griddepth - 1).
BackQuad_nextrow(x, gw, gd, ts, bs) ==
    addsidequad(ts + (x + gd * gw), ts + ((x + 1) + gd * gw),
                bs + (x + gd * gw), bs + ((x + 1) + gd * gw))

BackQuad(x, gw, gd, ts, bs) ==
    addsidequad(ts + (x + (gd - 1) * gw), ts + ((x + 1) + (gd - 1) * gw),
                bs + (x + (gd - 1) * gw), bs + ((x + 1) + (gd - 1) * gw))

RECURSIVE LeftLoop(_, _, _, _, _, _)
LeftLoop(z, gw, gd, ts, bs, acc) ==
    IF z < gd - 1 THEN LeftLoop(z + 1, gw, gd, ts, bs, acc \o LeftQuad(z, gw, ts, bs))
                  ELSE acc

RECURSIVE RightLoop(_, _, _, _, _, _)
RightLoop(z, gw, gd, ts, bs, acc) ==
    IF z < gd - 1 THEN RightLoop(z + 1, gw, gd, ts, bs, acc \o RightQuad(z, gw, ts, bs))
                  ELSE acc

RECURSIVE FrontLoop(_, _, _, _, _, _)
FrontLoop(x, gw, gd, ts, bs, acc) ==
    IF x < gw - 1 THEN FrontLoop(x + 1, gw, gd, ts, bs, acc \o FrontQuad(x, gw, ts, bs))
                  ELSE acc

RECURSIVE BackLoop(_, _, _, _, _, _)
BackLoop(x, gw, gd, ts, bs, acc) ==
    IF x < gw - 1 THEN BackLoop(x + 1, gw, gd, ts, bs, acc \o BackQuad(x, gw, gd, ts, bs))
                  ELSE acc

\* The index vector buildmesh leaves: top, bottom, left, right, front, back.
BuildIndices(gw, gd) ==
    LET ts == 0
        bs == gw * gd
        a1 == TopLoop(0, gw, gd, ts, <<>>)
        a2 == BottomLoop(0, gw, gd, bs, a1)
        a3 == LeftLoop(0, gw, gd, ts, bs, a2)
        a4 == RightLoop(0, gw, gd, ts, bs, a3)
        a5 == FrontLoop(0, gw, gd, ts, bs, a4)
    IN  BackLoop(0, gw, gd, ts, bs, a5)

(***************************************************************************)
(* watervolume::updatewaves                                                *)
(***************************************************************************)
\* Integer square root, for glm::normalize.
RECURSIVE SqrtSearch(_, _, _)
SqrtSearch(n, lo, hi) ==
    IF lo >= hi THEN lo
    ELSE LET mid == (lo + hi + 1) \div 2
         IN  IF mid * mid <= n THEN SqrtSearch(n, mid, hi)
                               ELSE SqrtSearch(n, lo, mid - 1)

ISqrt(n) == SqrtSearch(n, 0, 46340)

\* pi in Milli.
PiMilli == 3142

\* sinf on [0, pi], by Bhaskara's rational approximation
\* 16 x (pi - x) / (5 pi^2 - 4 x (pi - x)); argument and result in Milli.
SinHalfTurn(x) ==
    LET p == x * (PiMilli - x)
    IN  (16 * p) \div ((5 * PiMilli * PiMilli - 4 * p) \div Milli)

\* sinf, argument in Milli radians, result in Milli.
sinf(a) ==
    IF IsNaN(a) THEN NaN
    ELSE LET r == a % (2 * PiMilli)
         IN  IF r <= PiMilli THEN SinHalfTurn(r) ELSE -SinHalfTurn(r - PiMilli)

\* glm::normalize of a vec2, components in Milli.
Normalize2(x, y) ==
    LET len == ISqrt(x * x + y * y)
    IN  <<(x * Milli) \div len, (y * Milli) \div len>>

\* glm::normalize of a vec3, components in Milli.
Normalize3(x, y, z) ==
    LET len == ISqrt(x * x + y * y + z * z)
    IN  <<(x * Milli) \div len, (y * Milli) \div len, (z * Milli) \div len>>

\* The wave constants of updatewaves, in Milli.
amplitude1 == 6 * (Milli \div 10)
amplitude2 == 3 * (Milli \div 10)
frequency1 == 8 * (Milli \div 10)
frequency2 == 6 * (Milli \div 10)
speed1 == 3 * (Milli \div 10)
speed2 == 2 * (Milli \div 10)
dir1 == Normalize2(Milli, 2 * (Milli \div 10))
dir2 == Normalize2(2 * (Milli \div 10), Milli)

\* A time given in loop steps, as a float in Milli.
\* ((time * Milli) \div TicksPerUnit, computed without forming time * Milli)
TimeMilli(time) ==
    (time \div TicksPerUnit) * Milli + ((time % TicksPerUnit) * Milli) \div TicksPerUnit

\* amplitude * sinf(frequency * dot(dir, (px - speed * time, pz - speed * time)))
Wave(amplitude, frequency, speed, dir, px, pz, time) ==
    LET shift == FMul(speed, TimeMilli(time))
        dot   == FAdd(FMul(dir[1], FSub(px, shift)), FMul(dir[2], FSub(pz, shift)))
    IN  FMul(amplitude, sinf(FMul(frequency, dot)))

\* vertices[idx].y of the top loop: wave1 + wave2
WaveHeight(px, pz, time) ==
    FAdd(Wave(amplitude1, frequency1, speed1, dir1, px, pz, time),
         Wave(amplitude2, frequency2, speed2, dir2, px, pz, time))

\* The cells x + z * gridwidth the two height loops visit.
AllCells == {x + z * gridwidth : x \in 0 .. gridwidth - 1, z \in 0 .. griddepth - 1}

\* The normal loops running x up to the last column: 1 <= x < gridwidth.
InteriorCells_lastcolumn ==
    {x + z * gridwidth : x \in 1 .. gridwidth - 1, z \in 1 .. griddepth - 2}

\* The cells the two normal loops visit: 1 <= x < gridwidth - 1, 1 <= z < griddepth - 1.
InteriorCells ==
    {x + z * gridwidth : x \in 1 .. gridwidth - 2, z \in 1 .. griddepth - 2}

\* The top loop also moving each vertex with the first wave.
SetTopHeights_drift(vs, time) ==
    [i \in DOMAIN vs |->
        IF (i - topstart) \in AllCells
        THEN [vs[i] EXCEPT !.y = WaveHeight(vs[i].x, vs[i].z, time),
                           !.x = FSub(vs[i].x, FMul(speed1, TimeMilli(time)))]
        ELSE vs[i]]

\* First loop: the top heights.
SetTopHeights(vs, time) ==
    [i \in DOMAIN vs |->
        IF (i - topstart) \in AllCells
        THEN [vs[i] EXCEPT !.y = WaveHeight(vs[i].x, vs[i].z, time)]
        ELSE vs[i]]

\* The bottom loop adding the thickness.
SetBottomHeights_above(vs) ==
    [i \in DOMAIN vs |->
        IF (i - bottomstart) \in AllCells
        THEN [vs[i] EXCEPT !.y = FAdd(vs[topstart + (i - bottomstart)].y, thickness)]
        ELSE vs[i]]

\* Second loop: vertices[bottom_idx].y = vertices[top_idx].y - thickness
SetBottomHeights(vs) ==
    [i \in DOMAIN vs |->
        IF (i - bottomstart) \in AllCells
        THEN [vs[i] EXCEPT !.y = FSub(vs[topstart + (i - bottomstart)].y, thickness)]
        ELSE vs[i]]

\* The slopes dx and dz at vertex idx, by central differences.
SlopeX(vs, idx) == FSub(vs[idx + 1].y, vs[idx - 1].y) \div 2
SlopeZ(vs, idx) == FSub(vs[idx + gridwidth].y, vs[idx - gridwidth].y) \div 2

WithNormal(v, n) == [v EXCEPT !.nx = n[1], !.ny = n[2], !.nz = n[3]]

\* Third loop: normals of the top surface, normalize(-dx, 1, -dz).
SetTopNormals(vs) ==
    [i \in DOMAIN vs |->
        IF (i - topstart) \in InteriorCells
        THEN WithNormal(vs[i], Normalize3(-SlopeX(vs, i), Milli, -SlopeZ(vs, i)))
        ELSE vs[i]]

\* Fourth loop: normals of the bottom surface, normalize(dx, -1, dz).
SetBottomNormals(vs) ==
    [i \in DOMAIN vs |->
        IF (i - bottomstart) \in InteriorCells
        THEN WithNormal(vs[i], Normalize3(SlopeX(vs, i), -Milli, SlopeZ(vs, i)))
        ELSE vs[i]]

\* The vertex vector updatewaves(time) leaves.
updatewaves(vs, time) ==
    SetBottomNormals(SetTopNormals(SetBottomHeights(SetTopHeights(vs, time))))

(***************************************************************************)
(* The window's colour buffers and saveFrame.                              *)
(***************************************************************************)
\* A byte of memory nothing has written yet: new unsigned char[n] before the
\* first store, and the back buffer after a swap.
Uninitialised == -1

\* A buffer of n bytes, indexed from 0, nothing written yet.
NewBytes(n) == [i \in 0 .. n - 1 |-> Uninitialised]

\* What the clear and the draw call leave in a w x h colour buffer.  The
\* rasteriser is not part of the program: the picture is represented by
\* bytes that depend on the data drawn (marker) and on the position, so
\* that different data and different rows give different bytes.
Raster(marker, w, h) == [i \in 0 .. w * h * 3 - 1 |-> (marker + 5 * i) % 256]

\* The data glDrawElements reads, represented by the heights of the first
\* triangle drawn: the vertices the first three indices name.
Digest(vb, ib) ==
    IF Len(ib) < 3 THEN 0
    ELSE (vb[ib[1]].y + 2 * vb[ib[2]].y + 3 * vb[ib[3]].y) % 65536

\* glClear, then glDrawElements over the bound vertex and element buffers.
Draw(vb, ib, w, h) == Raster(Digest(vb, ib), w, h)

\* glReadPixels(0, 0, w, h, GL_RGB, GL_UNSIGNED_BYTE, pixels) with
\* GL_PACK_ALIGNMENT 1: the rows of the back buffer, tightly packed.
glReadPixels(buffer, w, h) == [i \in 0 .. w * h * 3 - 1 |-> buffer[i]]

\* memcpy(dst + to, src + from, n)
memcpy(dst, to, src, from, n) ==
    [i \in DOMAIN dst |-> IF i >= to /\ i < to + n THEN src[from + (i - to)] ELSE dst[i]]

\* The copy loop reading row y instead of row window_height - 1 - y.
RECURSIVE FlipLoop_sameRow(_, _, _, _, _, _)
FlipLoop_sameRow(y, pixels, flipped, copies, w, h) ==
    IF y >= h THEN [data |-> flipped, copies |-> copies]
    ELSE FlipLoop_sameRow(y + 1, pixels,
                  memcpy(flipped, (w * 3) * y, pixels, (w * 3) * y, w * 3),
                  Append(copies, [to |-> (w * 3) * y, from |-> (w * 3) * y, n |-> w * 3]),
                  w, h)

\* for (int y = 0; y < window_height; ++y) memcpy(flipped + (window_width * 3) * y,
\*     pixels + (window_width * 3) * (window_height - 1 - y), window_width * 3);
\* data is the buffer the loop leaves, copies the memcpy calls it made.
RECURSIVE FlipLoop(_, _, _, _, _, _)
FlipLoop(y, pixels, flipped, copies, w, h) ==
    IF y >= h THEN [data |-> flipped, copies |-> copies]
    ELSE FlipLoop(y + 1, pixels,
                  memcpy(flipped, (w * 3) * y, pixels, (w * 3) * (h - 1 - y), w * 3),
                  Append(copies, [to |-> (w * 3) * y, from |-> (w * 3) * (h - 1 - y),
                                  n |-> w * 3]),
                  w, h)

\* The flipped buffer saveFrame hands to stbi_write_png.
Flip(pixels, w, h) == FlipLoop(0, pixels, NewBytes(w * h * 3), <<>>, w, h).data

\* The decimal digits of n >= 0, most significant first.
RECURSIVE Digits(_)
Digits(n) == IF n < 10 THEN <<n>> ELSE Append(Digits(n \div 10), n % 10)

RECURSIVE ZeroPad(_, _)
ZeroPad(ds, fieldwidth) ==
    IF Len(ds) >= fieldwidth THEN ds ELSE ZeroPad(<<0>> \o ds, fieldwidth)

\* The characters of a digit sequence ('0' is 48).
DigitChars(ds) == [i \in 1 .. Len(ds) |-> 48 + ds[i]]

\* "%04d": at least four characters, padded with zeros on the left, the
\* sign ('-' is 45) counted in the four and written before the zeros.
Format04d(n) ==
    IF n >= 0 THEN DigitChars(ZeroPad(Digits(n), 4))
    ELSE <<45>> \o DigitChars(ZeroPad(Digits(-n), 3))

\* The characters of "frame_" and of ".png".
FramePrefix == <<102, 114, 97, 109, 101, 95>>
FrameSuffix == <<46, 112, 110, 103>>

\* sprintf_s(filename, "frame_%04d.png", frameNumber)
FrameName(frameNumber) == FramePrefix \o Format04d(frameNumber) \o FrameSuffix

\* The stbi_write_png call of saveFrame(frameNumber): the file written.
saveFrame(frameNumber, buffer, w, h) ==
    [filename |-> FrameName(frameNumber),
     w |-> w, h |-> h, comp |-> 3, stride |-> w * 3,
     data |-> Flip(glReadPixels(buffer, w, h), w, h)]

\* No file written yet.
NoWrite == [filename |-> <<>>, w |-> 0, h |-> 0, comp |-> 0, stride |-> 0, data |-> <<>>]

(***************************************************************************)
(* The water volume on its own: the constructor with any arguments, then   *)
(* updatewaves and upload called in any order with any times.              *)
(***************************************************************************)
GridSizes   == 0 .. MaxGrid
Widths      == {0, 3 * Milli}
Depths      == {-2 * Milli, 2 * Milli}
Thicknesses == {0, Milli \div 2, 2 * Milli}
\* times handed to updatewaves, in loop steps
Times       == {-40, 0, 33}

\* The recording globals and the loop variables as main declares them.
RecorderInit ==
    /\ g_recording = FALSE
    /\ g_recordStartTime = 0
    /\ g_recordedFrames = 0
    /\ g_globalSimTime = 0
    /\ windowShouldClose = FALSE
    /\ timeaccumulator = 0
    /\ pixelReads = 0
    /\ saved = <<>>
    /\ encoderCalls = <<>>

\* The window main creates, nothing drawn and no file written yet, no
\* encoder started.
WindowInit ==
    /\ window_width = LoopWindowWidth
    /\ window_height = LoopWindowHeight
    /\ framebuffer = NewBytes(LoopWindowWidth * LoopWindowHeight * 3)
    /\ screen = NewBytes(LoopWindowWidth * LoopWindowHeight * 3)
    /\ lastWrite = NoWrite
    /\ encoder = "none"

MeshInit ==
    /\ pc = "new"
    /\ constructed = FALSE
    /\ gridwidth \in GridSizes
    /\ griddepth \in GridSizes
    /\ width \in Widths
    /\ depth \in Depths
    /\ thickness \in Thicknesses
    /\ topstart = 0
    /\ bottomstart = 0
    /\ vertices = <<>>
    /\ indices = <<>>
    /\ vbo = <<>>
    /\ ebo = <<>>
    /\ RecorderInit
    /\ WindowInit

\* watervolume::watervolume: the member initialisers, then buildmesh().
Construct ==
    /\ pc = "new"
    /\ pc' = "built"
    /\ constructed' = TRUE
    /\ topstart' = 0
    /\ bottomstart' = gridwidth * griddepth
    /\ vertices' = BuildVertices(gridwidth, griddepth, width, depth, thickness)
    /\ indices' = BuildIndices(gridwidth, griddepth)
    /\ UNCHANGED <<gridwidth, griddepth, width, depth, thickness>>
    /\ UNCHANGED <<gpuvars, recvars, outvars, windowShouldClose, timeaccumulator,
                   g_globalSimTime, framevars, encoder>>

\* main: glBufferData of the vertex data and of the index data.
CreateBuffers ==
    /\ pc = "built"
    /\ pc' = "ready"
    /\ vbo' = vertices
    /\ ebo' = indices
    /\ UNCHANGED <<meshvars, recvars, outvars, windowShouldClose, timeaccumulator,
                   g_globalSimTime, framevars, encoder>>

\* water.updatewaves(time)
UpdateWavesCall(time) ==
    /\ pc = "ready"
    /\ vertices' = updatewaves(vertices, time)
    /\ UNCHANGED <<constructed, gridwidth, griddepth, width, depth, thickness,
                   topstart, bottomstart, indices>>
    /\ UNCHANGED <<gpuvars, recvars, outvars, loopvars, framevars, encoder>>

\* watervolume::upload: glBufferSubData of the whole vertex vector at offset 0.
upload(vs) == vs

\* water.upload(vbo)
UploadCall ==
    /\ pc = "ready"
    /\ vbo' = upload(vertices)
    /\ UNCHANGED <<ebo, meshvars, recvars, outvars, loopvars, framevars, encoder>>

MeshNext ==
    \/ Construct
    \/ CreateBuffers
    \/ \E time \in Times : UpdateWavesCall(time)
    \/ UploadCall

MeshSpec == MeshInit /\ [][MeshNext]_vars

(***************************************************************************)
(* The recorder: key_callback, saveFrame and the recording block of main.  *)
(***************************************************************************)
Keys       == {"GLFW_KEY_ESCAPE", "GLFW_KEY_S", "GLFW_KEY_W"}
KeyActions == {"GLFW_PRESS", "GLFW_RELEASE", "GLFW_REPEAT"}

\* key_callback without the reset of the frame counter.
key_callback_keepcount(key, action) ==
    /\ pc = "poll"
    /\ windowShouldClose' =
          IF key = "GLFW_KEY_ESCAPE" /\ action = "GLFW_PRESS" THEN TRUE
                                                             ELSE windowShouldClose
    /\ IF key = "GLFW_KEY_S" /\ action = "GLFW_PRESS" /\ ~g_recording
       THEN /\ g_recording' = TRUE
            /\ g_recordStartTime' = g_globalSimTime
            /\ g_recordedFrames' = g_recordedFrames
            /\ saved' = <<>>
       ELSE UNCHANGED <<recvars, saved>>
    /\ UNCHANGED <<pc, timeaccumulator, g_globalSimTime, pixelReads, encoderCalls>>
    /\ UNCHANGED <<meshvars, gpuvars, framevars, encoder>>

\* key_callback without the test of g_recording.
key_callback_restart(key, action) ==
    /\ pc = "poll"
    /\ windowShouldClose' =
          IF key = "GLFW_KEY_ESCAPE" /\ action = "GLFW_PRESS" THEN TRUE
                                                             ELSE windowShouldClose
    /\ IF key = "GLFW_KEY_S" /\ action = "GLFW_PRESS"
       THEN /\ g_recording' = TRUE
            /\ g_recordStartTime' = g_globalSimTime
            /\ g_recordedFrames' = 0
            /\ saved' = <<>>
       ELSE UNCHANGED <<recvars, saved>>
    /\ UNCHANGED <<pc, timeaccumulator, g_globalSimTime, pixelReads, encoderCalls>>
    /\ UNCHANGED <<meshvars, gpuvars, framevars, encoder>>

\* key_callback with the escape key also ending the recording.
key_callback_escstops(key, action) ==
    /\ pc = "poll"
    /\ windowShouldClose' =
          IF key = "GLFW_KEY_ESCAPE" /\ action = "GLFW_PRESS" THEN TRUE
                                                             ELSE windowShouldClose
    /\ IF key = "GLFW_KEY_S" /\ action = "GLFW_PRESS" /\ ~g_recording
       THEN /\ g_recording' = TRUE
            /\ g_recordStartTime' = g_globalSimTime
            /\ g_recordedFrames' = 0
            /\ saved' = <<>>
       ELSE IF key = "GLFW_KEY_ESCAPE" /\ action = "GLFW_PRESS"
       THEN /\ g_recording' = FALSE
            /\ UNCHANGED <<g_recordStartTime, g_recordedFrames, saved>>
       ELSE UNCHANGED <<recvars, saved>>
    /\ UNCHANGED <<pc, timeaccumulator, g_globalSimTime, pixelReads, encoderCalls>>
    /\ UNCHANGED <<meshvars, gpuvars, framevars, encoder>>

\* key_callback runs inside glfwPollEvents, once per key event.
key_callback(key, action) ==
    /\ pc = "poll"
    /\ windowShouldClose' =
          IF key = "GLFW_KEY_ESCAPE" /\ action = "GLFW_PRESS" THEN TRUE
                                                             ELSE windowShouldClose
    /\ IF key = "GLFW_KEY_S" /\ action = "GLFW_PRESS" /\ ~g_recording
       THEN /\ g_recording' = TRUE
            /\ g_recordStartTime' = g_globalSimTime
            /\ g_recordedFrames' = 0
            /\ saved' = <<>>
       ELSE UNCHANGED <<recvars, saved>>
    /\ UNCHANGED <<pc, timeaccumulator, g_globalSimTime, pixelReads, encoderCalls>>
    /\ UNCHANGED <<meshvars, gpuvars, framevars, encoder>>

\* float fps = g_recordedFrames / 16.0f, in ten-thousandths (a multiple of
\* 1/16 is a whole number of them).
Fps(frames) == (frames * 10^4) \div RECORD_DURATION

\* "%.2f" of a frame rate given in ten-thousandths: hundredths, a tie going
\* to the even neighbour.
FormatFps(f) ==
    LET q == f \div 100
        r == f % 100
    IN  IF r > 50 \/ (r = 50 /\ q % 2 = 1) THEN q + 1 ELSE q

\* The command main builds and hands to system().
EncoderCommand(frames) ==
    [fps |-> Fps(frames), framerate |-> FormatFps(Fps(frames)),
     input |-> "frame_%04d.png", output |-> "simulation.mp4"]

\* The recording block with the counter incremented before saveFrame.
RecordingBlock_incrementfirst(now, drawn) ==
    IF g_recording
    THEN /\ pixelReads' = pixelReads + 1
         /\ saved' = Append(saved, g_recordedFrames + 1)
         /\ lastWrite' = saveFrame(g_recordedFrames + 1, drawn, window_width, window_height)
         /\ g_recordedFrames' = g_recordedFrames + 1
         /\ IF now - g_recordStartTime >= RecordTicks
            THEN /\ g_recording' = FALSE
                 /\ encoderCalls' = Append(encoderCalls, EncoderCommand(g_recordedFrames'))
                 /\ encoder' = "running"
            ELSE UNCHANGED <<g_recording, encoderCalls, encoder>>
         /\ UNCHANGED g_recordStartTime
    ELSE UNCHANGED <<recvars, outvars, lastWrite, encoder>>

\* The recording block with the frame rate taken from the counter before
\* its increment.
RecordingBlock_stalefps(now, drawn) ==
    IF g_recording
    THEN /\ pixelReads' = pixelReads + 1
         /\ saved' = Append(saved, g_recordedFrames)
         /\ lastWrite' = saveFrame(g_recordedFrames, drawn, window_width, window_height)
         /\ g_recordedFrames' = g_recordedFrames + 1
         /\ IF now - g_recordStartTime >= RecordTicks
            THEN /\ g_recording' = FALSE
                 /\ encoderCalls' = Append(encoderCalls, EncoderCommand(g_recordedFrames))
                 /\ encoder' = "running"
            ELSE UNCHANGED <<g_recording, encoderCalls, encoder>>
         /\ UNCHANGED g_recordStartTime
    ELSE UNCHANGED <<recvars, outvars, lastWrite, encoder>>

\* The recording block without the test of g_recording.
RecordingBlock_always(now, drawn) ==
    /\ pixelReads' = pixelReads + 1
    /\ saved' = Append(saved, g_recordedFrames)
    /\ lastWrite' = saveFrame(g_recordedFrames, drawn, window_width, window_height)
    /\ g_recordedFrames' = g_recordedFrames + 1
    /\ IF now - g_recordStartTime >= RecordTicks
       THEN /\ g_recording' = FALSE
            /\ encoderCalls' = Append(encoderCalls, EncoderCommand(g_recordedFrames'))
            /\ encoder' = "running"
       ELSE UNCHANGED <<g_recording, encoderCalls, encoder>>
    /\ UNCHANGED g_recordStartTime

\* The recording block ending the recording only when more than 16.0 have
\* passed ( > in place of >= ).
RecordingBlock_strictlyafter(now, drawn) ==
    IF g_recording
    THEN /\ pixelReads' = pixelReads + 1
         /\ saved' = Append(saved, g_recordedFrames)
         /\ lastWrite' = saveFrame(g_recordedFrames, drawn, window_width, window_height)
         /\ g_recordedFrames' = g_recordedFrames + 1
         /\ IF now - g_recordStartTime > RecordTicks
            THEN /\ g_recording' = FALSE
                 /\ encoderCalls' = Append(encoderCalls, EncoderCommand(g_recordedFrames'))
                 /\ encoder' = "running"
            ELSE UNCHANGED <<g_recording, encoderCalls, encoder>>
         /\ UNCHANGED g_recordStartTime
    ELSE UNCHANGED <<recvars, outvars, lastWrite, encoder>>

\* if (g_recording) { saveFrame(g_recordedFrames); g_recordedFrames++; ... }
\* with now the value of g_globalSimTime in this iteration and drawn the
\* back buffer the draw call left.  When the recording is over, system(cmd)
\* starts the encoder.
RecordingBlock(now, drawn) ==
    IF g_recording
    THEN /\ pixelReads' = pixelReads + 1
         /\ saved' = Append(saved, g_recordedFrames)
         /\ lastWrite' = saveFrame(g_recordedFrames, drawn, window_width, window_height)
         /\ g_recordedFrames' = g_recordedFrames + 1
         /\ IF now - g_recordStartTime >= RecordTicks
            THEN /\ g_recording' = FALSE
                 /\ encoderCalls' = Append(encoderCalls, EncoderCommand(g_recordedFrames'))
                 /\ encoder' = "running"
            ELSE UNCHANGED <<g_recording, encoderCalls, encoder>>
         /\ UNCHANGED g_recordStartTime
    ELSE UNCHANGED <<recvars, outvars, lastWrite, encoder>>

(***************************************************************************)
(* main: the render loop.                                                  *)
(***************************************************************************)
\* while (!glfwWindowShouldClose(window)): the loop is entered.  The model
\* follows the loop up to MaxTime while the time advances, and a recording
\* up to MaxFrames frames.
LoopEnter ==
    /\ pc = "test"
    /\ ~windowShouldClose
    /\ timeaccumulator < MaxTime \/ timeaccumulator >= StallTicks
    /\ g_recordedFrames < MaxFrames
    /\ pc' = "poll"
    /\ UNCHANGED <<meshvars, gpuvars, recvars, outvars, windowShouldClose,
                   timeaccumulator, g_globalSimTime, framevars, encoder>>

\* while (!glfwWindowShouldClose(window)): the loop is left.
LoopExit ==
    /\ pc = "test"
    /\ windowShouldClose
    /\ pc' = "done"
    /\ UNCHANGED <<meshvars, gpuvars, recvars, outvars, windowShouldClose,
                   timeaccumulator, g_globalSimTime, framevars, encoder>>

\* The loop body uploading the vertex data before updatewaves changes it.
LoopBody_uploadfirst ==
    /\ pc = "poll"
    /\ timeaccumulator' = FloatAccumulate(timeaccumulator)
    /\ g_globalSimTime' = timeaccumulator'
    /\ vbo' = upload(vertices)
    /\ vertices' = updatewaves(vertices, timeaccumulator')
    /\ LET drawn == Draw(vbo', ebo, window_width, window_height)
       IN  /\ RecordingBlock(g_globalSimTime', drawn)
           /\ IF g_recording /\ ~g_recording'
              THEN /\ pc' = "system"
                   /\ framebuffer' = drawn
                   /\ UNCHANGED screen
              ELSE /\ pc' = "test"
                   /\ screen' = drawn
                   /\ framebuffer' = NewBytes(window_width * window_height * 3)
    /\ UNCHANGED <<constructed, gridwidth, griddepth, width, depth, thickness,
                   topstart, bottomstart, indices, ebo, windowShouldClose,
                   window_width, window_height>>

\* The iteration from the return of glfwPollEvents on: the time step,
\* updatewaves, upload, glClear and glDrawElements, the recording block and
\* glfwSwapBuffers, which shows the back buffer and leaves its contents
\* undefined.  In the iteration that ends a recording the step stops inside
\* system(cmd), which returns when the encoder has exited (SystemReturn).
LoopBody ==
    /\ pc = "poll"
    /\ timeaccumulator' = FloatAccumulate(timeaccumulator)
    /\ g_globalSimTime' = timeaccumulator'
    /\ vertices' = updatewaves(vertices, timeaccumulator')
    /\ vbo' = upload(vertices')
    /\ LET drawn == Draw(vbo', ebo, window_width, window_height)
       IN  /\ RecordingBlock(g_globalSimTime', drawn)
           /\ IF g_recording /\ ~g_recording'
              THEN /\ pc' = "system"
                   /\ framebuffer' = drawn
                   /\ UNCHANGED screen
              ELSE /\ pc' = "test"
                   /\ screen' = drawn
                   /\ framebuffer' = NewBytes(window_width * window_height * 3)
    /\ UNCHANGED <<constructed, gridwidth, griddepth, width, depth, thickness,
                   topstart, bottomstart, indices, ebo, windowShouldClose,
                   window_width, window_height>>

\* How the encoder process can end.
ExitStatuses == {"succeeded", "failed"}

\* system(cmd) returning with main testing the value and closing the window
\* when the encoder failed.
SystemReturn_checked(status) ==
    /\ pc = "system"
    /\ encoder' = status
    /\ pc' = "test"
    /\ windowShouldClose' = (windowShouldClose \/ status = "failed")
    /\ screen' = framebuffer
    /\ framebuffer' = NewBytes(window_width * window_height * 3)
    /\ UNCHANGED <<meshvars, gpuvars, recvars, outvars, timeaccumulator,
                   g_globalSimTime, window_width, window_height, lastWrite>>

\* system(cmd) returns, the encoder having exited with any status; main
\* drops the value, prints "video saved as simulation.mp4" and goes on to
\* glfwSwapBuffers.
SystemReturn(status) ==
    /\ pc = "system"
    /\ encoder' = status
    /\ pc' = "test"
    /\ screen' = framebuffer
    /\ framebuffer' = NewBytes(window_width * window_height * 3)
    /\ UNCHANGED <<meshvars, gpuvars, recvars, outvars, windowShouldClose,
                   timeaccumulator, g_globalSimTime, window_width, window_height,
                   lastWrite>>

\* main up to the loop: watervolume water(gw, gd, 300.0f, 200.0f, 2.0f), the
\* two glBufferData calls, timeaccumulator = 0.
Init ==
    /\ pc = "test"
    /\ constructed = TRUE
    /\ gridwidth = LoopGrid
    /\ griddepth = LoopGrid
    /\ width = 300 * Milli
    /\ depth = 200 * Milli
    /\ thickness = 2 * Milli
    /\ topstart = 0
    /\ bottomstart = LoopGrid * LoopGrid
    /\ vertices = BuildVertices(LoopGrid, LoopGrid, 300 * Milli, 200 * Milli, 2 * Milli)
    /\ indices = BuildIndices(LoopGrid, LoopGrid)
    /\ vbo = vertices
    /\ ebo = indices
    /\ RecorderInit
    /\ WindowInit

Next ==
    \/ LoopEnter
    \/ LoopExit
    \/ \E key \in Keys, action \in KeyActions : key_callback(key, action)
    \/ LoopBody
    \/ \E status \in ExitStatuses : SystemReturn(status)

Spec == Init /\ [][Next]_vars

(***************************************************************************)
(* The recorder's claims, checked under Spec.                              *)
(***************************************************************************)
\* A step of the loop body: from the return of glfwPollEvents to the next
\* test of the loop condition.
IterationStep == pc = "poll" /\ pc' \in {"test", "system"}

StartTrigger == key_callback("GLFW_KEY_S", "GLFW_PRESS")

\* C1: a start trigger handled while recording is inactive makes it active,
\* and whenever recording becomes active the start time is the simulation
\* time of that moment and the frame counter is 0, whatever values an
\* earlier recording left in them.
C1_StartFromInactive ==
    [][ /\ (~g_recording /\ StartTrigger) => g_recording'
        /\ (~g_recording /\ g_recording') =>
              /\ g_recordStartTime' = g_globalSimTime
              /\ g_globalSimTime' = g_globalSimTime
              /\ g_recordedFrames' = 0 ]_vars

\* A second recording has just been started: the first one left a non-zero
\* counter and its own start time behind.
C1_Witness ==
    /\ pc = "poll"
    /\ g_recording
    /\ Len(encoderCalls) = 1
    /\ g_recordedFrames = 0
    /\ g_recordStartTime = g_globalSimTime
    /\ g_recordStartTime >= RecordTicks

\* C2: a start trigger handled while recording is active changes neither the
\* recording flag nor the start time nor the frame counter.
C2_StartIdempotentWhileActive ==
    [][ (g_recording /\ StartTrigger) =>
            /\ g_recording' = g_recording
            /\ g_recordStartTime' = g_recordStartTime
            /\ g_recordedFrames' = g_recordedFrames ]_vars

\* Recording is under way, some frames in, and events are being polled: the
\* start trigger can be handled here.
C2_Witness ==
    /\ pc = "poll"
    /\ g_recording
    /\ g_recordedFrames >= 2
    /\ g_recordStartTime > 0
    /\ ENABLED StartTrigger

\* C3: every iteration in which recording is active hands exactly one frame
\* to saveFrame, numbered with the counter's value before the iteration, and
\* increments the counter; so the numbers written in one recording are
\* 0, 1, ..., n-1 in this order.
C3_FrameSequencing ==
    /\ [][ (IterationStep /\ g_recording) =>
              /\ saved' = Append(saved, g_recordedFrames)
              /\ pixelReads' = pixelReads + 1
              /\ g_recordedFrames' = g_recordedFrames + 1 ]_vars
    /\ [](/\ Len(saved) = g_recordedFrames
          /\ \A i \in 1 .. Len(saved) : saved[i] = i - 1)

\* A recording has handed over several frames and is still running.
C3_Witness ==
    /\ pc = "test"
    /\ g_recording
    /\ Len(saved) >= 5
    /\ saved[5] = 4

\* C4: recording becomes inactive only in an iteration that has just handed a
\* frame over and in which the time since the start is at least 16.0; an
\* iteration in which it is less leaves recording active and runs no encoder;
\* at the transition the encoder is invoked once, with the frame rate
\* (counter after the increment) / 16.0.
C4_Completion ==
    /\ [][ (g_recording /\ ~g_recording') =>
              /\ IterationStep
              /\ saved' = Append(saved, g_recordedFrames)
              /\ g_globalSimTime' - g_recordStartTime >= RecordTicks
              /\ Len(encoderCalls') = Len(encoderCalls) + 1
              /\ encoderCalls'[Len(encoderCalls')].fps * RECORD_DURATION
                    = g_recordedFrames' * 10^4
              /\ g_recordedFrames' = g_recordedFrames + 1 ]_vars
    /\ [][ (IterationStep /\ g_recording
               /\ g_globalSimTime' - g_recordStartTime < RecordTicks) =>
              /\ g_recording'
              /\ encoderCalls' = encoderCalls ]_vars

\* A recording has completed: the encoder was invoked and recording is off.
C4_Witness ==
    /\ pc = "test"
    /\ ~g_recording
    /\ Len(encoderCalls) = 1
    /\ g_recordedFrames > 0
    /\ g_globalSimTime - g_recordStartTime >= RecordTicks

\* C5: an iteration with recording inactive reads no pixels, hands no frame
\* to saveFrame, invokes no encoder and leaves the flag, the start time and
\* the counter alone; recording becomes active only by the start trigger.
C5_InactiveIterationIsNoOp ==
    /\ [][ (IterationStep /\ ~g_recording) =>
              /\ pixelReads' = pixelReads
              /\ saved' = saved
              /\ encoderCalls' = encoderCalls
              /\ g_recording' = g_recording
              /\ g_recordStartTime' = g_recordStartTime
              /\ g_recordedFrames' = g_recordedFrames ]_vars
    /\ [][ (~g_recording /\ g_recording') => StartTrigger ]_vars

\* Iterations have run with recording inactive, before any recording.
C5_Witness ==
    /\ pc = "test"
    /\ ~g_recording
    /\ timeaccumulator >= 3
    /\ pixelReads = 0
    /\ encoderCalls = <<>>

(***************************************************************************)
(* The water volume's claims, checked under MeshSpec.                      *)
(***************************************************************************)
\* Grid dimensions the data model allows.
ValidGrid == gridwidth >= 2 /\ griddepth >= 2

VertexCount == Cardinality(DOMAIN vertices)

\* C6: for every grid of at least 2 x 2, the constructed volume has exactly
\* 2 * W * D vertices (numbered from 0), an index count divisible by 3, and
\* every index is at least 0 and less than the vertex count.
C6_MeshCounts ==
    (constructed /\ ValidGrid) =>
        /\ DOMAIN vertices = 0 .. (2 * gridwidth * griddepth - 1)
        /\ VertexCount = 2 * gridwidth * griddepth
        /\ Len(indices) % 3 = 0
        /\ \A k \in 1 .. Len(indices) : indices[k] >= 0 /\ indices[k] < VertexCount

\* A 3 x 4 volume has been constructed.
C6_Witness ==
    /\ constructed
    /\ gridwidth = 3
    /\ griddepth = 4
    /\ VertexCount = 24
    /\ Len(indices) > 0

\* C7: a construction with a grid width or depth below 2, or a width, depth
\* or thickness that is not positive, is rejected: no water volume comes out
\* of it.
C7_InvalidConfigRejected ==
    (gridwidth < 2 \/ griddepth < 2 \/ width <= 0 \/ depth <= 0 \/ thickness <= 0)
        => ~constructed

\* The directed edges of the triangles of an index sequence.
DirectedEdges(ix) ==
    UNION {{<<ix[3 * t + 1], ix[3 * t + 2]>>,
            <<ix[3 * t + 2], ix[3 * t + 3]>>,
            <<ix[3 * t + 3], ix[3 * t + 1]>>} : t \in 0 .. (Len(ix) \div 3 - 1)}

\* Each triangle has three different corners, no directed edge is used twice
\* (three per triangle, all different), and the reverse of every directed edge
\* is used: every edge lies on exactly two triangles, which run along it in
\* opposite directions.
ClosedManifold(ix) ==
    LET edges == DirectedEdges(ix)
    IN  /\ Len(ix) > 0
        /\ \A e \in edges : e[1] # e[2]
        /\ Cardinality(edges) = Len(ix)
        /\ \A e \in edges : <<e[2], e[1]>> \in edges

\* C8: for every grid of at least 2 x 2 the index buffer is a closed,
\* consistently wound manifold.
C8_ClosedManifold ==
    (constructed /\ ValidGrid) => ClosedManifold(indices)

\* A 4 x 3 volume has been constructed: it has inner edges, wall edges and
\* the four vertical corner edges.
C8_Witness ==
    /\ constructed
    /\ gridwidth = 4
    /\ griddepth = 3
    /\ <<0, bottomstart>> \in DirectedEdges(indices)
    /\ <<bottomstart, 0>> \in DirectedEdges(indices)

\* C9: after construction and after every updatewaves call, each bottom
\* vertex has the y of its top vertex minus the thickness, and the same x and
\* z (grids of at least 2 x 2).
C9_BottomFollowsTop ==
    (constructed /\ ValidGrid) =>
        \A c \in AllCells :
            /\ FEq(vertices[bottomstart + c].y, FSub(vertices[topstart + c].y, thickness))
            /\ FEq(vertices[bottomstart + c].x, vertices[topstart + c].x)
            /\ FEq(vertices[bottomstart + c].z, vertices[topstart + c].z)

\* updatewaves has run on a 3 x 3 volume of thickness 0.5: the surface is
\* no longer flat.
C9_Witness ==
    /\ pc = "ready"
    /\ gridwidth = 3
    /\ griddepth = 3
    /\ thickness = Milli \div 2
    /\ vertices[topstart].y # 0
    /\ vertices[topstart].y # vertices[topstart + 4].y

\* C10: once the volume is constructed, no call changes the number of
\* vertices, the index sequence, or the x or z of any vertex.
C10_TopologyImmutable ==
    [][ constructed =>
          /\ DOMAIN vertices' = DOMAIN vertices
          /\ indices' = indices
          /\ \A i \in DOMAIN vertices :
                /\ vertices'[i].x = vertices[i].x
                /\ vertices'[i].z = vertices[i].z ]_vars

\* updatewaves and upload have run on a 4 x 3 volume: heights and an inner
\* normal have changed, and the vertex buffer holds the changed vertices.
C10_Witness ==
    /\ pc = "ready"
    /\ gridwidth = 4
    /\ griddepth = 3
    /\ width > 0
    /\ vertices[topstart].y # 0
    /\ vertices[topstart + 1 + gridwidth].nx # 0
    /\ vbo = vertices

\* C11: for every grid of at least 2 x 2 the index buffer holds
\* 6 (W-1)(D-1) indices for the top, as many for the bottom, 6 (D-1) for the
\* left and for the right wall, 6 (W-1) for the front and for the back wall,
\* in this order and nothing else: 12 (W-1)(D-1) + 12 (W-1) + 12 (D-1) in
\* all; a 4 x 4 grid has 32 vertices and 180 indices.
C11_IndexCount ==
    (constructed /\ ValidGrid) =>
        LET W  == gridwidth
            D  == griddepth
            bs == W * D
            top    == TopLoop(0, W, D, 0, <<>>)
            bottom == BottomLoop(0, W, D, bs, <<>>)
            left   == LeftLoop(0, W, D, 0, bs, <<>>)
            right  == RightLoop(0, W, D, 0, bs, <<>>)
            front  == FrontLoop(0, W, D, 0, bs, <<>>)
            back   == BackLoop(0, W, D, 0, bs, <<>>)
        IN  /\ Len(top) = 6 * (W - 1) * (D - 1)
            /\ Len(bottom) = 6 * (W - 1) * (D - 1)
            /\ Len(left) = 6 * (D - 1)
            /\ Len(right) = 6 * (D - 1)
            /\ Len(front) = 6 * (W - 1)
            /\ Len(back) = 6 * (W - 1)
            /\ indices = top \o bottom \o left \o right \o front \o back
            /\ Len(indices) = 12 * (W - 1) * (D - 1) + 12 * (W - 1) + 12 * (D - 1)
            /\ (W = 4 /\ D = 4) => (VertexCount = 32 /\ Len(indices) = 180)

\* A 4 x 4 volume has been constructed, with 32 vertices and 180 indices.
C11_Witness ==
    /\ constructed
    /\ gridwidth = 4
    /\ griddepth = 4
    /\ VertexCount = 32
    /\ Len(indices) = 180

(***************************************************************************)
(* saveFrame on its own: any picture in the back buffer of a window of any *)
(* small size, saveFrame called with any frame number.                     *)
(***************************************************************************)
\* The pictures drawn, by marker.
Markers == {0, 100, 251}
\* The frame numbers saveFrame is called with: small ones, the last of a
\* recording of 320 frames, the largest of four digits and the first of five.
FrameNumbers == {0, 7, 319, 9999, 10000}

FrameInit ==
    /\ pc = "drawn"
    /\ constructed = FALSE
    /\ gridwidth = 0
    /\ griddepth = 0
    /\ width = 0
    /\ depth = 0
    /\ thickness = 0
    /\ topstart = 0
    /\ bottomstart = 0
    /\ vertices = <<>>
    /\ indices = <<>>
    /\ vbo = <<>>
    /\ ebo = <<>>
    /\ RecorderInit
    /\ window_width \in 1 .. MaxCols
    /\ window_height \in 1 .. MaxRows
    /\ \E marker \in Markers : framebuffer = Raster(marker, window_width, window_height)
    /\ screen = NewBytes(window_width * window_height * 3)
    /\ lastWrite = NoWrite
    /\ encoder = "none"

\* A draw call leaves another picture in the back buffer.
DrawCall(marker) ==
    /\ pc = "drawn"
    /\ framebuffer' = Raster(marker, window_width, window_height)
    /\ UNCHANGED <<meshvars, gpuvars, recvars, outvars, loopvars, encoder,
                   window_width, window_height, screen, lastWrite>>

\* saveFrame(frameNumber)
SaveFrameCall(frameNumber) ==
    /\ pc = "drawn"
    /\ pixelReads < MaxReads
    /\ pixelReads' = pixelReads + 1
    /\ saved' = Append(saved, frameNumber)
    /\ lastWrite' = saveFrame(frameNumber, framebuffer, window_width, window_height)
    /\ UNCHANGED <<meshvars, gpuvars, recvars, loopvars, encoder, encoderCalls,
                   window_width, window_height, framebuffer, screen>>

FrameNext ==
    \/ \E marker \in Markers : DrawCall(marker)
    \/ \E frameNumber \in FrameNumbers : SaveFrameCall(frameNumber)

FrameSpec == FrameInit /\ [][FrameNext]_vars

\* C12: saveFrame flips the picture vertically.  Of a back buffer of H rows
\* of width * 3 bytes, row r of the image written is byte for byte row
\* H - 1 - r of the buffer, for every r in 0 .. H - 1; flipping the image
\* written once more gives the buffer back; and the copy loop writes every
\* row of the image exactly once, whole.
C12_VerticalFlip ==
    [][ (pixelReads' = pixelReads + 1) =>
          LET H      == window_height
              stride == window_width * 3
              src    == framebuffer
              out    == lastWrite'
              copies == FlipLoop(0, glReadPixels(src, window_width, H),
                                 NewBytes(H * stride), <<>>, window_width, H).copies
          IN  /\ out.w = window_width
              /\ out.h = H
              /\ out.stride = stride
              /\ DOMAIN out.data = 0 .. H * stride - 1
              /\ \A r \in 0 .. H - 1 : \A k \in 0 .. stride - 1 :
                     out.data[r * stride + k] = src[(H - 1 - r) * stride + k]
              /\ \A i \in DOMAIN out.data : out.data[i] \in 0 .. 255
              /\ Flip(out.data, window_width, H) = src
              /\ Len(copies) = H
              /\ \A r \in 0 .. H - 1 :
                     Cardinality({c \in 1 .. Len(copies) :
                                    copies[c].to = r * stride /\ copies[c].n = stride}) = 1
      ]_vars

\* An image of at least two rows has been written whose first and last rows
\* differ, the buffer it was read from still being in place.
C12_Witness ==
    /\ lastWrite # NoWrite
    /\ lastWrite.h >= 2
    /\ lastWrite.data[0] # lastWrite.data[(lastWrite.h - 1) * lastWrite.stride]
    /\ lastWrite.data[0] = framebuffer[(lastWrite.h - 1) * lastWrite.stride]

\* strcmp(a, b) < 0 on character sequences.
RECURSIVE LexLess(_, _)
LexLess(a, b) ==
    IF b = <<>> THEN FALSE
    ELSE IF a = <<>> THEN TRUE
    ELSE IF Head(a) # Head(b) THEN Head(a) < Head(b)
    ELSE LexLess(Tail(a), Tail(b))

\* name is "frame_", then exactly four decimal digits that spell n, then ".png".
FourDigitName(name, n) ==
    /\ Len(name) = Len(FramePrefix) + 4 + Len(FrameSuffix)
    /\ SubSeq(name, 1, Len(FramePrefix)) = FramePrefix
    /\ SubSeq(name, Len(FramePrefix) + 5, Len(name)) = FrameSuffix
    /\ \A i \in 1 .. 4 : name[Len(FramePrefix) + i] \in 48 .. 57
    /\ LET d(i) == name[Len(FramePrefix) + i] - 48
       IN  d(1) * 1000 + d(2) * 100 + d(3) * 10 + d(4) = n

\* C13: every frame file is named with the prefix and exactly four decimal
\* digits, the zero-padded frame number (7 gives "0007"), and of any two
\* frames written the one with the smaller number has the name that is
\* first in lexicographic order.
C13_FrameNames ==
    /\ (saved # <<>>) => lastWrite.filename = FrameName(saved[Len(saved)])
    /\ \A i \in 1 .. Len(saved) : FourDigitName(FrameName(saved[i]), saved[i])
    /\ \A i \in 1 .. Len(saved) : \A j \in 1 .. Len(saved) :
          (saved[i] < saved[j]) <=> LexLess(FrameName(saved[i]), FrameName(saved[j]))
    /\ FrameName(7) = FramePrefix \o <<48, 48, 48, 55>> \o FrameSuffix

(***************************************************************************)
(* The encoder, checked under Spec.                                        *)
(***************************************************************************)
\* The step that ends a recording: ACTIVE to INACTIVE.
RecordingEnds == g_recording /\ ~g_recording'

\* What the program itself holds, the encoder process and main's position
\* left out.
programvars == <<meshvars, gpuvars, recvars, outvars, windowShouldClose,
                 timeaccumulator, g_globalSimTime, window_width, window_height,
                 lastWrite>>

TriangleNormal(vs, ix, k) ==
    LET v0 == vs[ix[3 * k + 1]]
        v1 == vs[ix[3 * k + 2]]
        v2 == vs[ix[3 * k + 3]]
        ax == v1.x - v0.x
        ay == v1.y - v0.y
        az == v1.z - v0.z
        bx == v2.x - v0.x
        by == v2.y - v0.y
        bz == v2.z - v0.z
    IN  <<ay * bz - az * by, az * bx - ax * bz, ax * by - ay * bx>>

\* The sign of a number: -1, 0 or 1.
Sign(a) == IF a > 0 THEN 1 ELSE IF a < 0 THEN -1 ELSE 0

\* The direction a triangle normal points in, as the signs of its components.
Facing(n) == <<Sign(n[1]), Sign(n[2]), Sign(n[3])>>

\* The triangles of the six parts of the index buffer, as ranges of triangle
\* numbers: top, bottom, left, right, front, back.
TopTriangles    == 0 .. 2 * (gridwidth - 1) * (griddepth - 1) - 1
BottomTriangles == {k + 2 * (gridwidth - 1) * (griddepth - 1) : k \in TopTriangles}
LeftTriangles   == {k + 4 * (gridwidth - 1) * (griddepth - 1) :
                        k \in 0 .. 2 * (griddepth - 1) - 1}
RightTriangles  == {k + 2 * (griddepth - 1) : k \in LeftTriangles}
FrontTriangles  == {k + 4 * (gridwidth - 1) * (griddepth - 1) + 4 * (griddepth - 1) :
                        k \in 0 .. 2 * (gridwidth - 1) - 1}
BackTriangles   == {k + 2 * (gridwidth - 1) : k \in FrontTriangles}

\* A volume with positive extents has just been built on a grid of at
\* least 2 x 2.
BuiltSolid ==
    /\ pc = "built"
    /\ ValidGrid
    /\ width > 0
    /\ depth > 0
    /\ thickness > 0

\* Every triangle of part faces the direction dir.
AllFacing(part, dir) ==
    \A k \in part : Facing(TriangleNormal(vertices, indices, k)) = dir

\* C15: in the mesh buildmesh leaves, with width, depth and thickness
\* positive, the normal (v1 - v0) x (v2 - v0) of every top triangle points
\* up (+y), of every bottom triangle down (-y), and of every wall triangle
\* away from the volume: left -x, right +x, front -z, back +z.
C15_OutwardWinding ==
    BuiltSolid =>
        /\ AllFacing(TopTriangles, <<0, 1, 0>>)
        /\ AllFacing(BottomTriangles, <<0, -1, 0>>)
        /\ AllFacing(LeftTriangles, <<-1, 0, 0>>)
        /\ AllFacing(RightTriangles, <<1, 0, 0>>)
        /\ AllFacing(FrontTriangles, <<0, 0, -1>>)
        /\ AllFacing(BackTriangles, <<0, 0, 1>>)

\* What buildmesh does instead: every triangle faces into the volume.
C15_InwardWinding ==
    BuiltSolid =>
        /\ AllFacing(TopTriangles, <<0, -1, 0>>)
        /\ AllFacing(BottomTriangles, <<0, 1, 0>>)
        /\ AllFacing(LeftTriangles, <<1, 0, 0>>)
        /\ AllFacing(RightTriangles, <<-1, 0, 0>>)
        /\ AllFacing(FrontTriangles, <<0, 0, 1>>)
        /\ AllFacing(BackTriangles, <<0, 0, -1>>)

(***************************************************************************)
(* The order of the steps of one iteration, checked under Spec.            *)
(***************************************************************************)
\* C16: in every iteration the time is advanced first, updatewaves runs with
\* the advanced time, upload copies the vertices updatewaves left, the draw
\* call draws from that vertex buffer, the capture (when recording) reads
\* the picture just drawn, and the swap comes last: the vertex buffer and
\* the frame written are those of this iteration's time, never those of an
\* earlier iteration and never a buffer only partly written.
C16_FrameOrdering ==
    [][ IterationStep =>
          LET drawn == Draw(vbo', ebo', window_width, window_height)
          IN  /\ timeaccumulator' = timeaccumulator + 1
              /\ g_globalSimTime' = timeaccumulator'
              /\ vertices' = updatewaves(vertices, g_globalSimTime')
              /\ vbo' = vertices'
              /\ \A i \in DOMAIN drawn : drawn[i] # Uninitialised
              /\ IF g_recording
                 THEN /\ lastWrite'.data = Flip(glReadPixels(drawn, window_width, window_height),
                                               window_width, window_height)
                      /\ lastWrite'.filename = FrameName(g_recordedFrames)
                 ELSE lastWrite' = lastWrite
              /\ IF pc' = "test" THEN screen' = drawn ELSE framebuffer' = drawn
      ]_vars

\* A frame other than the first of a recording has been captured and shown:
\* the waves have moved the vertices, the vertex buffer holds them, and the
\* file written and the screen show the picture drawn from them.
C16_Witness ==
    /\ pc = "test"
    /\ g_recording
    /\ g_recordedFrames >= 2
    /\ vbo = vertices
    /\ vertices # BuildVertices(gridwidth, griddepth, width, depth, thickness)
    /\ screen = Draw(vbo, ebo, window_width, window_height)
    /\ lastWrite.data = Flip(screen, window_width, window_height)
    /\ lastWrite.data # screen

(***************************************************************************)
(* The normals at the border of the grid, checked under MeshSpec.          *)
(***************************************************************************)
\* The normal stored in a vertex.
NormalOf(v) == <<v.nx, v.ny, v.nz>>

\* Cell idx = x + z * gridwidth lies in the first or last row or column.
BorderCell(idx) ==
    \/ idx % gridwidth = 0
    \/ idx % gridwidth = gridwidth - 1
    \/ idx \div gridwidth = 0
    \/ idx \div gridwidth = griddepth - 1

\* C17: updatewaves never recomputes a border normal.  Whatever calls of
\* updatewaves have been made, with whatever times, every vertex in the
\* first or last row or column of the top grid still has the normal
\* (0, 1, 0) and of the bottom grid (0, -1, 0); a call changes normals only
\* at cells with 1 <= x <= W - 2 and 1 <= z <= D - 2; and with W = 2 or
\* D = 2 it changes no normal at all.
C17_BorderNormalsKept ==
    [][ constructed' =>
          /\ \A idx \in AllCells :
                BorderCell(idx) =>
                  /\ NormalOf(vertices'[topstart' + idx]) = <<0, Milli, 0>>
                  /\ NormalOf(vertices'[bottomstart' + idx]) = <<0, -Milli, 0>>
          /\ constructed =>
                \A i \in DOMAIN vertices :
                  NormalOf(vertices'[i]) # NormalOf(vertices[i]) =>
                    \E x \in 1 .. gridwidth - 2 : \E z \in 1 .. griddepth - 2 :
                      i \in {topstart + x + z * gridwidth, bottomstart + x + z * gridwidth}
          /\ (constructed /\ (gridwidth = 2 \/ griddepth = 2)) =>
                \A i \in DOMAIN vertices : NormalOf(vertices'[i]) = NormalOf(vertices[i])
      ]_vars

\* updatewaves has tilted the normal of an interior vertex of a grid of at
\* least 3 x 3 while a border vertex in the same row, whose neighbours
\* differ in height, still has the normal (0, 1, 0).
C17_Witness ==
    /\ pc = "ready"
    /\ gridwidth >= 3
    /\ griddepth >= 3
    /\ NormalOf(vertices[topstart + 1 + gridwidth]) # <<0, Milli, 0>>
    /\ NormalOf(vertices[topstart + gridwidth]) = <<0, Milli, 0>>
    /\ vertices[topstart].y # vertices[topstart + 2 * gridwidth].y

(***************************************************************************)
(* The length of a recording, checked under Spec, where every time step is *)
(* exactly 0.05.                                                           *)
(***************************************************************************)
\* C18: the key callback runs in the poll phase, before the time step, so
\* the iteration in which the start trigger was handled captures frame 0
\* with an elapsed time of one step, not 0; a recording that runs to its end
\* has captured exactly 320 frames, numbered 0 .. 319, and the encoder is
\* given the frame rate 20 (printed 20.00); no frame number reaches 10000.
C18_FramesPerRecording ==
    [][ /\ (~g_recording /\ g_recording') =>
              /\ pc = "poll"
              /\ pc' = "poll"
              /\ g_recordStartTime' = timeaccumulator
        /\ (IterationStep /\ g_recording /\ g_recordedFrames = 0) =>
              /\ saved' = <<0>>
              /\ g_globalSimTime' - g_recordStartTime' = 1
        /\ RecordingEnds =>
              /\ g_recordedFrames' = RecordTicks
              /\ saved' = [i \in 1 .. RecordTicks |-> i - 1]
              /\ g_globalSimTime' - g_recordStartTime = RecordTicks
              /\ encoderCalls'[Len(encoderCalls')].fps = 20 * 10^4
              /\ encoderCalls'[Len(encoderCalls')].framerate = 20 * 100
        /\ (saved' # <<>>) => saved'[Len(saved')] < 10^4
        /\ g_recordedFrames' <= RecordTicks
      ]_vars

\* A recording has run to its end and the encoder has exited: 320 frames,
\* the last one numbered 319 and named frame_0319.png, frame rate 20.00.
C18_Witness ==
    /\ ~g_recording
    /\ encoder = "succeeded"
    /\ Len(saved) = RecordTicks
    /\ saved[RecordTicks] = RecordTicks - 1
    /\ lastWrite.filename = FrameName(RecordTicks - 1)
    /\ encoderCalls[1].framerate = 20 * 100

(***************************************************************************)
(* The loop after a long run.  timeaccumulator is a float: once it has     *)
(* reached 2^20 = 1048576.0 (after about 18 million iterations), adding    *)
(* 0.05f no longer changes it.  LongRunSpec follows the loop from its      *)
(* start, as Spec does, and also from that moment on.                      *)
(***************************************************************************)
\* The state of main at a test of the loop condition once the time has
\* reached 2^20, no key having been pressed so far: the vertices are those
\* updatewaves left for that time and the screen shows their picture.
LateInit ==
    /\ pc = "test"
    /\ constructed = TRUE
    /\ gridwidth = LoopGrid
    /\ griddepth = LoopGrid
    /\ width = 300 * Milli
    /\ depth = 200 * Milli
    /\ thickness = 2 * Milli
    /\ topstart = 0
    /\ bottomstart = LoopGrid * LoopGrid
    /\ indices = BuildIndices(LoopGrid, LoopGrid)
    /\ ebo = indices
    /\ g_recording = FALSE
    /\ g_recordStartTime = 0
    /\ g_recordedFrames = 0
    /\ windowShouldClose = FALSE
    /\ pixelReads = 0
    /\ saved = <<>>
    /\ encoderCalls = <<>>
    /\ timeaccumulator = StallTicks
    /\ g_globalSimTime = StallTicks
    /\ vertices = updatewaves(BuildVertices(LoopGrid, LoopGrid, 300 * Milli, 200 * Milli,
                                            2 * Milli), StallTicks)
    /\ vbo = vertices
    /\ window_width = LoopWindowWidth
    /\ window_height = LoopWindowHeight
    /\ framebuffer = NewBytes(LoopWindowWidth * LoopWindowHeight * 3)
    /\ screen = Draw(vbo, ebo, LoopWindowWidth, LoopWindowHeight)
    /\ lastWrite = NoWrite
    /\ encoder = "none"

LongRunInit == Init \/ LateInit

LongRunSpec == LongRunInit /\ [][Next]_vars

\* C19: every recording that becomes ACTIVE ends.  In the form a finite run
\* can refute: the iterations of the loop are what ends a recording, and
\* 16.0 / 0.05 = 320 of them are enough, so a recording that is ACTIVE has
\* captured at most 320 frames.  Further, the encoder is invoked at the
\* step that ends a recording and at no other, once; and a start trigger
\* handled after that begins a fresh recording, counter 0 and start time
\* the current time.
C19_RecordingCompletes ==
    [][ /\ g_recording' => g_recordedFrames' <= RecordTicks
        /\ RecordingEnds => Len(encoderCalls') = Len(encoderCalls) + 1
        /\ ~RecordingEnds => encoderCalls' = encoderCalls
        /\ (~g_recording /\ StartTrigger) =>
              /\ g_recording'
              /\ g_recordedFrames' = 0
              /\ g_recordStartTime' = g_globalSimTime
      ]_vars

(***************************************************************************)
(* Closing the window, checked under Spec.                                 *)
(***************************************************************************)
EscapePressed == key_callback("GLFW_KEY_ESCAPE", "GLFW_PRESS")

\* C20: the close request is looked at only in the loop condition, once per
\* iteration.  Handling the escape key sets the request and nothing else,
\* and the request is never withdrawn; the iteration in which it was
\* handled has no way on but the whole loop body, which captures its frame
\* when recording is ACTIVE; at the next test of the loop condition the loop is left and no
\* further iteration starts; and when main leaves the loop with a recording
\* still ACTIVE, less than 16.0 have passed since its start and the encoder
\* is not running and is never invoked for it.
C20_Cancellation ==
    [][ /\ EscapePressed =>
            /\ windowShouldClose'
            /\ UNCHANGED <<pc, recvars, outvars, lastWrite, timeaccumulator>>
        /\ windowShouldClose => windowShouldClose'
        /\ (windowShouldClose # windowShouldClose') => pc = "poll"
        /\ (pc = "poll" /\ pc' # "poll") => IterationStep
        /\ (IterationStep /\ windowShouldClose) =>
            /\ timeaccumulator' = timeaccumulator + 1
            /\ vbo' = updatewaves(vertices, timeaccumulator')
            /\ g_recording =>
                  /\ pixelReads' = pixelReads + 1
                  /\ saved' = Append(saved, g_recordedFrames)
                  /\ lastWrite'.filename = FrameName(g_recordedFrames)
        /\ (pc = "test" /\ windowShouldClose) => pc' = "done"
        /\ (pc' = "done") => (pc = "test" /\ windowShouldClose)
        /\ (pc' = "done" /\ g_recording') =>
            /\ g_globalSimTime' - g_recordStartTime' < RecordTicks
            /\ encoder' # "running"
            /\ Len(saved') = g_recordedFrames'
        /\ (pc = "done") => UNCHANGED vars
      ]_vars

\* main has left the loop with a recording ACTIVE: the escape key was
\* handled in an iteration that still captured its frame, and no encoder
\* was ever invoked.
C20_Witness ==
    /\ pc = "done"
    /\ windowShouldClose
    /\ g_recording
    /\ g_recordedFrames >= 2
    /\ lastWrite.filename = FrameName(g_recordedFrames - 1)
    /\ encoderCalls = <<>>
    /\ encoder = "none"

====
